---- MODULE Spec2Model ----
(***************************************************************************)
(* Model of day9/quick_sort.py: the recursive driver quick_sort(array,     *)
(* low, high), the Partitioner it imports (partition1.partition_array,     *)
(* whose source is not part of src/ and is modelled from its contract),    *)
(* and the module-level demonstration lines 10-13.                         *)
(*                                                                         *)
(* Python lists are modelled as functions over 0..n-1, so that indices     *)
(* are the indices of the source.  The Python call stack is the sequence   *)
(* `stack` of frames; each frame records low, high, the line it is at      *)
(* and, once line 5 has run, pivot_index.                                  *)
(***************************************************************************)
EXTENDS Integers, FiniteSets, Sequences

VARIABLES
    mode,      \* "api": quick_sort called by a client; "demo": lines 10-13
    array,     \* the list object being sorted
    array0,    \* the list as it was when the first call was made
    low0,      \* arguments of the outermost call
    high0,
    stack,     \* call stack of quick_sort frames, outermost first
    pivots,    \* indices returned by the Partitioner during this call
    pcalls,    \* number of Partitioner invocations during this call
    outcome,   \* "running", "returned", or the name of the exception
    output,    \* what the demo has printed so far
    mpc,       \* line of the module-level demo, "none" in api mode
    run,       \* 1 during the first call, 2 during a repeated call
    first      \* the list as the first call left it (set when run = 2)

vars == <<mode, array, array0, low0, high0, stack, pivots, pcalls,
          outcome, output, mpc, run, first>>

\* ---------------------------------------------------------------- bounds
MaxLen == 3
MaxVal == 3
MaxDepth == 5

Vals == 1..MaxVal

\* ------------------------------------------------------- Python helpers
ListLen(a) == Cardinality(DOMAIN a)

ListObj(a) == [type |-> "list", val |-> a]
IntObj(n) == [type |-> "int", val |-> n]

\* builtin len(): defined on lists, TypeError on an int
PyLen(obj) ==
    IF obj.type = "list"
    THEN [ok |-> TRUE, val |-> ListLen(obj.val)]
    ELSE [ok |-> FALSE, val |-> "TypeError"]

\* line 10: l1=[34,223,22,31,1,100,50,40,22,72]
l1 == [i \in 0..9 |-> <<34, 223, 22, 31, 1, 100, 50, 40, 22, 72>>[i + 1]]

Frame(low, high) == [low |-> low, high |-> high, pc |-> "line4", pivot_index |-> "unbound"]

Top == stack[Len(stack)]
Pop == SubSeq(stack, 1, Len(stack) - 1)
SetTop(f) == [stack EXCEPT ![Len(stack)] = f]

\* ----------------------------------------------------------- Partitioner
\* Number of positions of lo..hi at which a holds v
Count(a, lo, hi, v) == Cardinality({i \in lo..hi : a[i] = v})

\* partition invariant around index p
Partitioned(b, lo, hi, p) ==
    /\ p \in lo..hi
    /\ \A i \in lo..(p - 1) : b[i] <= b[p]
    /\ \A i \in (p + 1)..hi : b[i] >= b[p]

\* Faulty Partitioner: the pivot value is written over the first element of
\* the range instead of being swapped with it.
PartitionOverwrites(a, lo, hi) ==
    LET perms == {f \in [lo..hi -> lo..hi] : \A i, j \in lo..hi : f[i] = f[j] => i = j}
        arrs == {[i \in DOMAIN a |-> IF i \in lo..hi THEN a[f[i]] ELSE a[i]] : f \in perms}
    IN {<<[b EXCEPT ![lo] = b[p]], p>> : <<b, p>> \in
            {r \in arrs \X (lo..hi) : Partitioned(r[1], lo, hi, r[2])}}

\* Faulty Partitioner: only the left side is compared with the pivot.
PartitionLeftOnly(a, lo, hi) ==
    LET perms == {f \in [lo..hi -> lo..hi] : \A i, j \in lo..hi : f[i] = f[j] => i = j}
        arrs == {[i \in DOMAIN a |-> IF i \in lo..hi THEN a[f[i]] ELSE a[i]] : f \in perms}
    IN {<<b, p>> \in arrs \X (lo..hi) : \A i \in lo..(p - 1) : b[i] <= b[p]}

\* All the <<array, pivot index>> results the Partitioner's contract allows
\* on lo..hi (any pivot policy).
PartitionResults(a, lo, hi) ==
    LET perms == {f \in [lo..hi -> lo..hi] : \A i, j \in lo..hi : f[i] = f[j] => i = j}
        arrs == {[i \in DOMAIN a |-> IF i \in lo..hi THEN a[f[i]] ELSE a[i]] : f \in perms}
    IN {<<b, p>> \in arrs \X (lo..hi) : Partitioned(b, lo, hi, p)}

\* ------------------------------------------------------------------ Init
Arrays == UNION {[0..(n - 1) -> Vals] : n \in 0..MaxLen}

\* Argument pairs of the outermost call.  A pair with high > low reaches the
\* Partitioner, whose contract covers valid indices only, so those pairs are
\* drawn inside the list; pairs with high <= low are drawn freely.
Ranges(a) ==
    {r \in (-1..MaxLen) \X (-1..MaxLen) :
        \/ r[2] <= r[1]
        \/ (0 <= r[1] /\ r[2] <= ListLen(a) - 1)}

InitApi ==
    /\ mode = "api"
    /\ array \in Arrays
    /\ array0 = array
    /\ \E r \in Ranges(array) : low0 = r[1] /\ high0 = r[2]
    /\ stack = <<Frame(low0, high0)>>
    /\ output = <<>>
    /\ mpc = "none"

InitDemo ==
    /\ mode = "demo"
    /\ array = l1
    /\ array0 = l1
    /\ low0 = 0
    /\ high0 = 0
    /\ stack = <<>>
    /\ output = <<>>
    /\ mpc = "line11"

Init ==
    /\ (InitApi \/ InitDemo)
    /\ pivots = {}
    /\ pcalls = 0
    /\ outcome = "running"
    /\ run = 1
    /\ first = <<>>

\* ---------------------------------------------------------- quick_sort
\* A frame is left: control goes back to the caller's frame, or to the
\* client when the outermost call returns.
Return ==
    /\ stack' = Pop
    /\ outcome' = IF Len(stack) = 1 THEN "returned" ELSE outcome
    /\ UNCHANGED <<mode, array, array0, low0, high0, pivots, pcalls,
                   output, mpc, run, first>>

\* Faulty guard: if high >= low
GuardGE ==
    /\ outcome = "running" /\ stack # <<>> /\ Top.pc = "line4"
    /\ IF Top.high >= Top.low
       THEN /\ stack' = SetTop([Top EXCEPT !.pc = "line5"])
            /\ UNCHANGED <<mode, array, array0, low0, high0, pivots, pcalls,
                           outcome, output, mpc, run, first>>
       ELSE Return

\* Faulty guard: if high != low
GuardNE ==
    /\ outcome = "running" /\ stack # <<>> /\ Top.pc = "line4"
    /\ IF Top.high # Top.low
       THEN /\ stack' = SetTop([Top EXCEPT !.pc = "line5"])
            /\ UNCHANGED <<mode, array, array0, low0, high0, pivots, pcalls,
                           outcome, output, mpc, run, first>>
       ELSE Return

\* line 4: if high > low:   (a false test falls off the end of the function)
Guard ==
    /\ outcome = "running" /\ stack # <<>> /\ Top.pc = "line4"
    /\ IF Top.high > Top.low
       THEN /\ stack' = SetTop([Top EXCEPT !.pc = "line5"])
            /\ UNCHANGED <<mode, array, array0, low0, high0, pivots, pcalls,
                           outcome, output, mpc, run, first>>
       ELSE Return

\* line 5: pivot_index = pa(array, low, high)
CallPartitioner ==
    /\ outcome = "running" /\ stack # <<>> /\ Top.pc = "line5"
    /\ \E res \in PartitionResults(array, Top.low, Top.high) :
          /\ array' = res[1]
          /\ stack' = SetTop([Top EXCEPT !.pc = "line6", !.pivot_index = res[2]])
          /\ pivots' = pivots \cup {res[2]}
    /\ pcalls' = pcalls + 1
    /\ UNCHANGED <<mode, array0, low0, high0, outcome, output, mpc, run, first>>

\* Faulty line 6: quick_sort(array, low, pivot_index)
RecurseLeftKeepsPivot ==
    /\ outcome = "running" /\ stack # <<>> /\ Top.pc = "line6"
    /\ Len(stack) < MaxDepth
    /\ stack' = Append(SetTop([Top EXCEPT !.pc = "line7"]),
                       Frame(Top.low, Top.pivot_index))
    /\ UNCHANGED <<mode, array, array0, low0, high0, pivots, pcalls,
                   outcome, output, mpc, run, first>>

\* Faulty line 6: quick_sort(array, low, pivot_index-2)
RecurseLeftSkipsOne ==
    /\ outcome = "running" /\ stack # <<>> /\ Top.pc = "line6"
    /\ Len(stack) < MaxDepth
    /\ stack' = Append(SetTop([Top EXCEPT !.pc = "line7"]),
                       Frame(Top.low, Top.pivot_index - 2))
    /\ UNCHANGED <<mode, array, array0, low0, high0, pivots, pcalls,
                   outcome, output, mpc, run, first>>

\* line 6: quick_sort(array, low, pivot_index-1)
RecurseLeft ==
    /\ outcome = "running" /\ stack # <<>> /\ Top.pc = "line6"
    /\ Len(stack) < MaxDepth
    /\ stack' = Append(SetTop([Top EXCEPT !.pc = "line7"]),
                       Frame(Top.low, Top.pivot_index - 1))
    /\ UNCHANGED <<mode, array, array0, low0, high0, pivots, pcalls,
                   outcome, output, mpc, run, first>>

\* Faulty line 7: quick_sort(array, pivot_index, high)
RecurseRightKeepsPivot ==
    /\ outcome = "running" /\ stack # <<>> /\ Top.pc = "line7"
    /\ Len(stack) < MaxDepth
    /\ stack' = Append(SetTop([Top EXCEPT !.pc = "end"]),
                       Frame(Top.pivot_index, Top.high))
    /\ UNCHANGED <<mode, array, array0, low0, high0, pivots, pcalls,
                   outcome, output, mpc, run, first>>

\* Faulty line 7: quick_sort(array, pivot_index +2, high)
RecurseRightSkipsOne ==
    /\ outcome = "running" /\ stack # <<>> /\ Top.pc = "line7"
    /\ Len(stack) < MaxDepth
    /\ stack' = Append(SetTop([Top EXCEPT !.pc = "end"]),
                       Frame(Top.pivot_index + 2, Top.high))
    /\ UNCHANGED <<mode, array, array0, low0, high0, pivots, pcalls,
                   outcome, output, mpc, run, first>>

\* line 7: quick_sort(array, pivot_index +1, high)
RecurseRight ==
    /\ outcome = "running" /\ stack # <<>> /\ Top.pc = "line7"
    /\ Len(stack) < MaxDepth
    /\ stack' = Append(SetTop([Top EXCEPT !.pc = "end"]),
                       Frame(Top.pivot_index + 1, Top.high))
    /\ UNCHANGED <<mode, array, array0, low0, high0, pivots, pcalls,
                   outcome, output, mpc, run, first>>

\* end of the body after line 7
ReturnAfterRight ==
    /\ outcome = "running" /\ stack # <<>> /\ Top.pc = "end"
    /\ Return

\* A client calls quick_sort once more, with the same arguments, on the list
\* the first call left.
CallAgain ==
    /\ mode = "api" /\ outcome = "returned" /\ run = 1
    /\ run' = 2
    /\ first' = array
    /\ stack' = <<Frame(low0, high0)>>
    /\ outcome' = "running"
    /\ pivots' = {}
    /\ pcalls' = 0
    /\ UNCHANGED <<mode, array, array0, low0, high0, output, mpc>>

\* ------------------------------------------------------- module-level demo
\* line 11: print(f'before sorting: {l1}')
DemoPrintBefore ==
    /\ mode = "demo" /\ mpc = "line11" /\ outcome = "running"
    /\ output' = Append(output, <<"before sorting: ", ListObj(l1)>>)
    /\ mpc' = "line12"
    /\ UNCHANGED <<mode, array, array0, low0, high0, stack, pivots, pcalls,
                   outcome, run, first>>

\* line 12: quick_sort(l1, 0, len(11)-1)
\* The argument len(11) is evaluated before the call; when it raises, the
\* call is never made and the module stops with the exception.
DemoCall ==
    /\ mode = "demo" /\ mpc = "line12" /\ outcome = "running" /\ stack = <<>>
    /\ LET n == PyLen(IntObj(11)) IN
         IF n.ok
         THEN /\ stack' = <<Frame(0, n.val - 1)>>
              /\ high0' = n.val - 1
              /\ mpc' = "line13"
              /\ outcome' = outcome
         ELSE /\ outcome' = n.val
              /\ mpc' = "line12"
              /\ UNCHANGED <<stack, high0>>
    /\ UNCHANGED <<mode, array, array0, low0, pivots, pcalls, output,
                   run, first>>

Next ==
    \/ Guard
    \/ CallPartitioner
    \/ RecurseLeft
    \/ RecurseRight
    \/ ReturnAfterRight
    \/ CallAgain
    \/ DemoPrintBefore
    \/ DemoCall

Spec == Init /\ [][Next]_vars

\* The interpreter always takes the next step of a running call.
FairSpec == Spec /\ WF_vars(Next)

\* ============================================================ properties
N0 == ListLen(array0)
ValidRange == 0 <= low0 /\ low0 <= high0 /\ high0 <= N0 - 1
WholeSequence == low0 = 0 /\ high0 = N0 - 1
Returned == mode = "api" /\ outcome = "returned"

\* The value of rank k (0-based) among the elements of a at lo..hi
RankVal(a, lo, hi, k) ==
    CHOOSE v \in {a[i] : i \in lo..hi} :
        /\ Cardinality({i \in lo..hi : a[i] < v}) <= k
        /\ k < Cardinality({i \in lo..hi : a[i] <= v})

\* The list a with lo..hi put in non-decreasing order (reference result)
SortedRef(a, lo, hi) ==
    [i \in DOMAIN a |-> IF i \in lo..hi THEN RankVal(a, lo, hi, i - lo) ELSE a[i]]

\* C1: when quick_sort(array, low, high) with 0 <= low <= high <= length-1 has
\* returned, array[i] <= array[i+1] for every low <= i < high.
C1_SortedOnReturn ==
    (Returned /\ ValidRange) =>
        \A i \in low0..(high0 - 1) : array[i] <= array[i + 1]

\* the reverse-sorted list [3,2,1] has been sorted over its whole range
C1_Witness ==
    /\ Returned /\ run = 1 /\ WholeSequence
    /\ array0 = [i \in 0..2 |-> 3 - i]
    /\ array = [i \in 0..2 |-> i + 1]

\* C2: at every step of the recursion and on return the list has the length
\* of the input and holds every value as many times as the input does.
C2_Permutation ==
    /\ DOMAIN array = DOMAIN array0
    /\ \A v \in {array0[i] : i \in DOMAIN array0} \cup {array[i] : i \in DOMAIN array} :
          Count(array, 0, N0 - 1, v) = Count(array0, 0, N0 - 1, v)

\* in the middle of the recursion, after the list has been rearranged
C2_Witness ==
    /\ mode = "api" /\ outcome = "running" /\ Len(stack) >= 2
    /\ array # array0 /\ N0 = MaxLen

\* C3: a call that finds low >= high at line 4 returns in that step: the frame
\* is popped, the Partitioner is not invoked and the list is not changed; this
\* holds for the outermost call and for every recursive call.
C3_BaseCaseReturns ==
    [][(outcome = "running" /\ stack # <<>> /\ Top.pc = "line4"
          /\ Top.low >= Top.high)
        => (stack' = Pop /\ pcalls' = pcalls /\ array' = array)]_vars

\* the empty list called with low=0, high=-1 has returned untouched
C3_Witness ==
    /\ Returned /\ run = 1 /\ N0 = 0 /\ low0 = 0 /\ high0 = -1
    /\ pcalls = 0 /\ array = array0

\* C4 (as claimed): a call on a non-empty list whose low or high is outside
\* [0, length-1], or whose high is not length-1, ends in InvalidRange with the
\* list unmodified and no Partitioner call.
C4_InvalidRangeRejected ==
    (mode = "api" /\ run = 1 /\ outcome # "running" /\ N0 > 0
       /\ (low0 \notin 0..(N0 - 1) \/ high0 \notin 0..(N0 - 1) \/ high0 # N0 - 1))
    => (outcome = "InvalidRange" /\ array = array0 /\ pcalls = 0)

\* C5 (as claimed): the demo ends having called the sort on l1 and having
\* reported [1,22,22,31,34,40,50,72,100,223].
C5_DemoReportsSorted ==
    (mode = "demo" /\ outcome # "running") =>
        /\ outcome = "returned"
        /\ output # <<>>
        /\ output[Len(output)] = <<"after sorting: ", ListObj(SortedRef(l1, 0, 9))>>

\* C6: every recursive call is on a range strictly shorter than its caller's,
\* and every call with low and high inside [0, length-1] returns.
RangeLen(f) == f.high - f.low + 1
C6_Terminates ==
    /\ [](\A k \in 2..Len(stack) : RangeLen(stack[k]) < RangeLen(stack[k - 1]))
    /\ ((mode = "api" /\ outcome = "running"
           /\ low0 \in 0..(N0 - 1) /\ high0 \in 0..(N0 - 1))
        ~> Returned)

\* an all-equal list of full length has been sorted and the stack is empty
C6_Witness ==
    /\ Returned /\ WholeSequence /\ N0 = MaxLen /\ stack = <<>>
    /\ \A i \in DOMAIN array0 : array0[i] = 2

\* C7: a second quick_sort over the whole sequence leaves every element where
\* the first one put it.
C7_Idempotent ==
    (Returned /\ run = 2 /\ WholeSequence) => array = first

\* the second call has returned on a list the first call had to rearrange
C7_Witness ==
    /\ Returned /\ run = 2 /\ WholeSequence /\ N0 = MaxLen
    /\ array0 # first /\ array = first /\ pcalls >= 1

\* C8: the step in which line 5 gets pivot index p from the Partitioner, called
\* on [low, high] with low < high, ends with low <= p <= high, array[i] <=
\* array[p] for low <= i < p, array[i] >= array[p] for p < i <= high, and
\* array[p] a value that was in [low, high] before the call.
C8_PartitionInvariant ==
    [][(pcalls' = pcalls + 1) =>
        LET lo == Top.low
            hi == Top.high
            p == stack'[Len(stack')].pivot_index
        IN /\ lo < hi
           /\ p \in lo..hi
           /\ \A i \in lo..(p - 1) : array'[i] <= array'[p]
           /\ \A i \in (p + 1)..hi : array'[i] >= array'[p]
           /\ \E i \in lo..hi : array[i] = array'[p]]_vars

\* line 5 has just returned a pivot strictly inside a range of three elements
C8_Witness ==
    /\ mode = "api" /\ outcome = "running" /\ stack # <<>>
    /\ Top.pc = "line6" /\ Top.high - Top.low = 2
    /\ Top.pivot_index = Top.low + 1
    /\ array # array0

\* C9: a frame that has its pivot index p is in the call on [low, p-1] first
\* and in the call on [p+1, high] after it, and in no other call; no range
\* still to be partitioned holds an index already returned as a pivot; and the
\* element at such an index is the one the sorted result has there.
C9_PivotSettled ==
    mode = "api" =>
    /\ \A k \in 1..(Len(stack) - 1) :
          LET f == stack[k]
              g == stack[k + 1]
          IN \/ f.pc = "line7" /\ g.low = f.low /\ g.high = f.pivot_index - 1
             \/ f.pc = "end" /\ g.low = f.pivot_index + 1 /\ g.high = f.high
    /\ \A k \in 1..Len(stack) :
          stack[k].pc \in {"line4", "line5"} =>
              \A p \in pivots : p \notin stack[k].low..stack[k].high
    /\ \A p \in pivots : array[p] = SortedRef(array0, low0, high0)[p]

\* inside the right-hand call of a frame whose left-hand call did real work
C9_Witness ==
    /\ mode = "api" /\ run = 1 /\ Len(stack) = 2
    /\ stack[1].pc = "end" /\ stack[2].pc = "line4"
    /\ Cardinality(pivots) >= 2
    /\ array # array0

\* C10: in a call with 0 <= low <= high <= length-1 the Partitioner is only
\* ever about to be invoked on [l, h] with low <= l < h <= high, and every
\* element outside [low, high] keeps the value it had before the call.
C10_RangeFrame ==
    (mode = "api" /\ ValidRange) =>
    /\ \A k \in 1..Len(stack) :
          stack[k].pc = "line5" =>
              low0 <= stack[k].low /\ stack[k].low < stack[k].high
                  /\ stack[k].high <= high0
    /\ \A i \in DOMAIN array0 : i \notin low0..high0 => array[i] = array0[i]

\* a proper sub-range has been rearranged while the rest of the list stays
C10_Witness ==
    /\ Returned /\ N0 = MaxLen /\ low0 = 1 /\ high0 = N0 - 1
    /\ array # array0 /\ array[0] = array0[0]

====
